---- MODULE Spec2Model ----
(***************************************************************************)
(* A model of tfit's EC2 helpers (pkg/tfit/helper.go): handleError, the    *)
(* Instance mapper (Instance.set / Instances.set), the paginated           *)
(* GetInstances fetch, GetVPCs with setVPCAttribute, and the two WriteHCL  *)
(* templates.                                                              *)
(*                                                                         *)
(* Go pointers are modelled as optionals: Nil is the nil pointer, Some(v)  *)
(* a pointer to v.  Strings the code inspects byte by byte (the profile    *)
(* ARN, the monitoring state) are sequences of byte values; strings the    *)
(* code only copies are TLA+ strings.  Tag keys and values are references  *)
(* (addresses into StrHeap), because the code keys a map by them.          *)
(*                                                                         *)
(* The code dereferences src.State, src.Monitoring, each security group    *)
(* and each tag without a nil check, so the mocked API responses always    *)
(* carry these structs; it reads their leaves through the nil-safe         *)
(* aws.*Value helpers, so the leaves may be nil.                           *)
(***************************************************************************)
EXTENDS Integers, Sequences, FiniteSets, TLC

VARIABLES
    pc,        \* the position of the running operation
    calls,     \* the API calls issued so far, each with what it was answered
    ret,       \* the collection the operation returned (Nil: nil, or not yet)
    retErr,    \* the error the operation returned
    hcl,       \* the blocks WriteHCL's template produced
    \* GetInstances
    opt, out, rsvIdx, instances, served,
    \* GetVPCs
    basicInfo, classicLink, classicLinkDnsSupport, vpcIdx, vpc, res,
    \* Instance.set and handleError applied on their own
    src, mapped, errArg, errRet

opVars   == <<calls, ret, retErr, hcl>>
instVars == <<opt, out, rsvIdx, instances, served>>
vpcVars  == <<basicInfo, classicLink, classicLinkDnsSupport, vpcIdx, vpc, res>>
pureVars == <<src, mapped, errArg, errRet>>

vars == <<pc, opVars, instVars, vpcVars, pureVars>>

\* ------------------------------------------------------------------ bounds
\* The longest profile ARN, in bytes, and the longest tag list.
MaxArn == 3
MaxTags == 2
\* What the mocked DescribeInstances serves at most: pages, reservations on
\* a page, and instances over the whole fetch.
MaxPages == 2
MaxRsv == 2
MaxTotal == 2
\* The most VPCs the mocked DescribeVpcs lists.
MaxVpcs == 2

\* ------------------------------------------------------- pointers, strings
Nil == <<>>
Some(v) == <<v>>

\* aws.StringValue on a byte string: "" for nil.
StringValue(p) == IF p = Nil THEN <<>> ELSE p[1]

\* aws.Int64Value: 0 for nil.
Int64Value(p) == IF p = Nil THEN 0 ELSE p[1]

\* The state code of a terminated instance.
Terminated == 48

\* The literal "disabled".
Disabled == <<100, 105, 115, 97, 98, 108, 101, 100>>

\* strings.Compare: -1, 0 or 1 by lexicographic byte order.
RECURSIVE StringsCompare(_, _)
StringsCompare(a, b) ==
    IF a = <<>> /\ b = <<>> THEN 0
    ELSE IF a = <<>> THEN -1
    ELSE IF b = <<>> THEN 1
    ELSE IF a[1] < b[1] THEN -1
    ELSE IF a[1] > b[1] THEN 1
    ELSE StringsCompare(Tail(a), Tail(b))

\* strings.Index for a one-byte separator: the first position of c, 0 if none.
RECURSIVE StringsIndex(_, _)
StringsIndex(s, c) ==
    IF s = <<>> THEN 0
    ELSE IF s[1] = c THEN 1
    ELSE IF StringsIndex(Tail(s), c) = 0 THEN 0
    ELSE 1 + StringsIndex(Tail(s), c)

\* strings.Split(s, "/"): cut at every separator, the rest is the last piece.
RECURSIVE StringsSplit(_, _)
StringsSplit(s, c) ==
    LET i == StringsIndex(s, c) IN
    IF i = 0 THEN <<s>>
    ELSE <<SubSeq(s, 1, i - 1)>> \o StringsSplit(SubSeq(s, i + 1, Len(s)), c)

\* The variables of an operation that is not running.
IdleOp == calls = <<>> /\ ret = Nil /\ retErr = Nil /\ hcl = Nil
IdleInstances ==
    opt = Nil /\ out = Nil /\ rsvIdx = 0 /\ instances = <<>> /\ served = <<>>
IdleVpcs ==
    /\ basicInfo = Nil /\ classicLink = Nil /\ classicLinkDnsSupport = Nil
    /\ vpcIdx = 0 /\ vpc = Nil /\ res = <<>>
IdlePure == src = Nil /\ mapped = Nil /\ errArg = Nil /\ errRet = Nil

\* ------------------------------------------------------------ Instance.set
\* if src.IamInstanceProfile != nil && Arn != nil { last piece of the ARN }
SetIamInstanceProfileFirstPiece(s) ==
    IF s.IamInstanceProfile /= Nil /\ s.IamInstanceProfile[1].Arn /= Nil
    THEN LET tmp == StringsSplit(StringValue(s.IamInstanceProfile[1].Arn), 47)
         IN  Some(tmp[1])
    ELSE Nil

SetIamInstanceProfile(s) ==
    IF s.IamInstanceProfile /= Nil /\ s.IamInstanceProfile[1].Arn /= Nil
    THEN LET tmp == StringsSplit(StringValue(s.IamInstanceProfile[1].Arn), 47)
         IN  Some(tmp[Len(tmp)])
    ELSE Nil

\* if strings.Compare(StringValue(src.Monitoring.State), "disabled") == 0
SetMonitoringByPrefix(s) ==
    LET st == StringValue(s.Monitoring.State) IN
    IF Len(st) >= Len(Disabled)
       /\ StringsCompare(SubSeq(st, 1, Len(Disabled)), Disabled) = 0
    THEN Some(FALSE)
    ELSE Some(TRUE)

SetMonitoring(s) ==
    IF StringsCompare(StringValue(s.Monitoring.State), Disabled) = 0
    THEN Some(FALSE)
    ELSE Some(TRUE)

\* if src.SecurityGroups != nil { append each sg.GroupName }: a nil slice
\* stays nil, and so does an empty one (append is never reached).
SetSecurityGroups(s) ==
    IF s.SecurityGroups /= Nil /\ Len(s.SecurityGroups[1]) > 0
    THEN Some([k \in 1..Len(s.SecurityGroups[1]) |->
                  s.SecurityGroups[1][k].GroupName])
    ELSE Nil

\* Addresses of the string allocations tags point to; 0 is the nil pointer.
\* 1 and 2 are two allocations of the same text.
StrHeap == [a \in 1..5 |->
              CASE a = 1 -> "Name"
                [] a = 2 -> "Name"
                [] a = 3 -> "env"
                [] a = 4 -> "web"
                [] a = 5 -> "db"]

\* The first address holding the same text as a (what a map keyed by the
\* text would use).
TextKey(a) == IF a = 0 THEN 0
              ELSE CHOOSE b \in DOMAIN StrHeap :
                     /\ StrHeap[b] = StrHeap[a]
                     /\ \A c \in DOMAIN StrHeap : StrHeap[c] = StrHeap[a] => b <= c

\* i.Tags[t.Key] = t.Value on a map[*string]*string
MapPutByText(m, k, v) ==
    [x \in DOMAIN m \cup {TextKey(k)} |-> IF x = TextKey(k) THEN v ELSE m[x]]

MapPut(m, k, v) ==
    [x \in DOMAIN m \cup {k} |-> IF x = k THEN v ELSE m[x]]

EmptyMap == [x \in {} |-> 0]

RECURSIVE TagsLoop(_, _)
TagsLoop(m, tags) ==
    IF tags = <<>> THEN m
    ELSE TagsLoop(MapPut(m, tags[1].Key, tags[1].Value), Tail(tags))

\* if src.Tags != nil { i.Tags = make(map); for each tag: i.Tags[Key] = Value }
SetTags(s) ==
    IF s.Tags /= Nil THEN Some(TagsLoop(EmptyMap, s.Tags[1])) ELSE Nil

InstanceSet(s) ==
    [ EbsOptimized       |-> s.EbsOptimized,
      IamInstanceProfile |-> SetIamInstanceProfile(s),
      ImageID            |-> s.ImageId,
      InstanceID         |-> s.InstanceId,
      InstanceType       |-> s.InstanceType,
      KeyName            |-> s.KeyName,
      Monitoring         |-> SetMonitoring(s),
      SecurityGroups     |-> SetSecurityGroups(s),
      SourceDestCheck    |-> s.SourceDestCheck,
      SubnetID           |-> s.SubnetId,
      VpcID              |-> s.VpcId,
      Tags               |-> SetTags(s) ]

\* ------------------------------------------- inputs of the mapper (ec2.Instance)
\* All byte strings over {'/', 'a', 'p'} of length n.
RECURSIVE BytesOfLen(_)
BytesOfLen(n) ==
    IF n = 0 THEN {<<>>}
    ELSE {<<b>> \o t : b \in {47, 97, 112}, t \in BytesOfLen(n - 1)}

Arns == UNION {BytesOfLen(n) : n \in 0..MaxArn}

Profiles == {Nil, Some([Arn |-> Nil])} \cup {Some([Arn |-> Some(a)]) : a \in Arns}

\* nil, "disabled", "enabled", "pending", "Disabled", "disable", "disabled ", ""
MonitoringStates ==
    { Nil,
      Some(Disabled),
      Some(<<101, 110, 97, 98, 108, 101, 100>>),
      Some(<<112, 101, 110, 100, 105, 110, 103>>),
      Some(<<68, 105, 115, 97, 98, 108, 101, 100>>),
      Some(<<100, 105, 115, 97, 98, 108, 101>>),
      Some(<<100, 105, 115, 97, 98, 108, 101, 100, 32>>),
      Some(<<>>) }

SrcTags == [Key : 0..3, Value : {0, 4, 5}]

RECURSIVE SeqsOfLen(_, _)
SeqsOfLen(S, n) ==
    IF n = 0 THEN {<<>>}
    ELSE {<<x>> \o t : x \in S, t \in SeqsOfLen(S, n - 1)}

SeqsUpTo(S, n) == UNION {SeqsOfLen(S, k) : k \in 0..n}

TagLists == {Nil} \cup {Some(t) : t \in SeqsUpTo(SrcTags, MaxTags)}

GroupLists ==
    { Nil, Some(<<>>),
      Some(<<[GroupName |-> Some("default")]>>),
      Some(<<[GroupName |-> Some("web")], [GroupName |-> Nil]>>) }

OptBool == {Nil, Some(TRUE), Some(FALSE)}

\* A running instance with every field set.
FullInstance ==
    [ EbsOptimized       |-> Some(TRUE),
      IamInstanceProfile |-> Some([Arn |-> Some(<<97, 47, 112>>)]),
      ImageId            |-> Some("ami-1"),
      InstanceId         |-> Some("i-1"),
      InstanceType       |-> Some("t2.micro"),
      KeyName            |-> Some("key"),
      Monitoring         |-> [State |-> Some(Disabled)],
      SecurityGroups     |-> Some(<<[GroupName |-> Some("default")]>>),
      SourceDestCheck    |-> Some(FALSE),
      SubnetId           |-> Some("subnet-1"),
      VpcId              |-> Some("vpc-1"),
      Tags               |-> Some(<<[Key |-> 1, Value |-> 4]>>),
      State              |-> [Code |-> Some(16)] ]

\* The copied scalar fields, each nil or set, independently.
ScalarVariants ==
    { [FullInstance EXCEPT !.EbsOptimized = e, !.SourceDestCheck = d,
                           !.ImageId = IF "ImageId" \in U THEN Nil ELSE @,
                           !.InstanceId = IF "InstanceId" \in U THEN Nil ELSE @,
                           !.InstanceType = IF "InstanceType" \in U THEN Nil ELSE @,
                           !.KeyName = IF "KeyName" \in U THEN Nil ELSE @,
                           !.SubnetId = IF "SubnetId" \in U THEN Nil ELSE @,
                           !.VpcId = IF "VpcId" \in U THEN Nil ELSE @]
      : e \in OptBool, d \in OptBool,
        U \in SUBSET {"ImageId", "InstanceId", "InstanceType", "KeyName",
                      "SubnetId", "VpcId"} }

ProfileVariants ==
    { [FullInstance EXCEPT !.IamInstanceProfile = p, !.Monitoring = [State |-> m]]
      : p \in Profiles, m \in MonitoringStates }

TagVariants ==
    { [FullInstance EXCEPT !.Tags = t, !.SecurityGroups = g]
      : t \in TagLists, g \in GroupLists }

SrcInstances == ScalarVariants \cup ProfileVariants \cup TagVariants

\* ----------------------------------------------------- the mapper on its own
InitSet ==
    /\ pc = "set"
    /\ src \in SrcInstances
    /\ mapped = Nil
    /\ errArg = Nil /\ errRet = Nil
    /\ IdleOp /\ IdleInstances /\ IdleVpcs
    /\ errArg = Nil /\ errRet = Nil

\* tmp := &Instance{}; tmp.set(v)
ApplyInstanceSet ==
    /\ pc = "set"
    /\ mapped' = Some(InstanceSet(src))
    /\ pc' = "mapped"
    /\ UNCHANGED <<opVars, instVars, vpcVars, src, errArg, errRet>>

NextSet == ApplyInstanceSet

SpecSet == InitSet /\ [][NextSet]_vars

\* ------------------------------------------------------------- handleError
\* An error value is Nil (the nil error) or Some(e): e.IsAwsErr tells whether
\* the type assertion err.(awserr.Error) succeeds, e.Code is awsErr.Code().
HandleErrorWithoutCORS(err) ==
    IF err /= Nil /\ err[1].IsAwsErr
    THEN CASE err[1].Code = "NoSuchBucketPolicy" -> Nil
           [] err[1].Code = "NoSuchWebsiteConfiguration" -> Nil
           [] err[1].Code = "NoSuchLifecycleConfiguration" -> Nil
           [] err[1].Code = "ReplicationConfigurationNotFoundError" -> Nil
           [] err[1].Code = "ServerSideEncryptionConfigurationNotFoundError" -> Nil
           [] OTHER -> err
    ELSE err

handleError(err) ==
    IF err /= Nil /\ err[1].IsAwsErr
    THEN CASE err[1].Code = "NoSuchBucketPolicy" -> Nil
           [] err[1].Code = "NoSuchWebsiteConfiguration" -> Nil
           [] err[1].Code = "NoSuchLifecycleConfiguration" -> Nil
           [] err[1].Code = "ReplicationConfigurationNotFoundError" -> Nil
           [] err[1].Code = "ServerSideEncryptionConfigurationNotFoundError" -> Nil
           [] err[1].Code = "NoSuchCORSConfiguration" -> Nil
           [] OTHER -> err
    ELSE err

\* Error codes the mocked provider may answer with: the six of the switch,
\* near misses of them, and unrelated ones.
ErrorCodes ==
    { "NoSuchBucketPolicy", "NoSuchWebsiteConfiguration",
      "NoSuchLifecycleConfiguration", "ReplicationConfigurationNotFoundError",
      "ServerSideEncryptionConfigurationNotFoundError", "NoSuchCORSConfiguration",
      "nosuchbucketpolicy", "NoSuchBucketPolicy ", "NoSuchBucket",
      "NoSuchCORSConfigurations", "ReplicationConfigurationNotFound",
      "NoSuchTagSet", "NoSuchKey", "AccessDenied", "RequestTimeout", "" }

ErrorMessages == {"", "not found", "NoSuchBucketPolicy"}

AwsErrors == [IsAwsErr : {TRUE}, Code : ErrorCodes, Message : ErrorMessages]

\* Errors that are no awserr.Error; their text may well be an allow-listed code.
PlainErrors == [IsAwsErr : {FALSE}, Code : {""}, Message : ErrorCodes]

ErrorArgs == {Nil} \cup {Some(e) : e \in AwsErrors \cup PlainErrors}

InitErr ==
    /\ pc = "handleError"
    /\ errArg \in ErrorArgs
    /\ errRet = Nil
    /\ src = Nil /\ mapped = Nil
    /\ IdleOp /\ IdleInstances /\ IdleVpcs

ApplyHandleError ==
    /\ pc = "handleError"
    /\ errRet' = handleError(errArg)
    /\ pc' = "handled"
    /\ UNCHANGED <<opVars, instVars, vpcVars, src, mapped, errArg>>

NextErr == ApplyHandleError

SpecErr == InitErr /\ [][NextErr]_vars

\* ------------------------------------------- Instances.set and GetInstances
\* if aws.Int64Value(v.State.Code) == 48 { continue }
KeepInstanceAlways(v) == TRUE

KeepInstance(v) == Int64Value(v.State.Code) /= Terminated

\* for _, v := range src { skip the terminated; tmp.set(v); append }
RECURSIVE InstancesSetLoop(_, _)
InstancesSetLoop(acc, list) ==
    IF list = <<>> THEN acc
    ELSE InstancesSetLoop(
             IF KeepInstance(list[1]) THEN Append(acc, InstanceSet(list[1])) ELSE acc,
             Tail(list))

\* Instances.set: nothing for a nil slice.
InstancesSet(acc, list) ==
    IF list = Nil THEN acc ELSE InstancesSetLoop(acc, list[1])

\* A terminated instance, otherwise complete.
TerminatedInstance ==
    [FullInstance EXCEPT !.InstanceId = Some("i-2"),
                         !.State = [Code |-> Some(Terminated)]]

\* A stopped-or-unknown instance with every optional leaf nil.
SparseInstance ==
    [ EbsOptimized       |-> Nil,
      IamInstanceProfile |-> Nil,
      ImageId            |-> Nil,
      InstanceId         |-> Some("i-3"),
      InstanceType       |-> Nil,
      KeyName            |-> Nil,
      Monitoring         |-> [State |-> Nil],
      SecurityGroups     |-> Nil,
      SourceDestCheck    |-> Nil,
      SubnetId           |-> Nil,
      VpcId              |-> Nil,
      Tags               |-> Nil,
      State              |-> [Code |-> Nil] ]

\* The instances the mocked DescribeInstances serves.
InstPool == {FullInstance, TerminatedInstance, SparseInstance}

\* Continuation tokens; the empty string is a token too (it is not nil).
Tokens == {"", "t1"}

\* Errors the mocked API may answer with; the second carries a code that
\* handleError would swallow.
ApiErrors ==
    { Some([IsAwsErr |-> TRUE, Code |-> "RequestLimitExceeded", Message |-> ""]),
      Some([IsAwsErr |-> TRUE, Code |-> "NoSuchBucketPolicy", Message |-> ""]),
      Some([IsAwsErr |-> FALSE, Code |-> "", Message |-> "connection reset"]) }

\* The number of instances a reservation carries.
RsvSize(r) == IF r.Instances = Nil THEN 0 ELSE Len(r.Instances[1])

\* Reservations with at most n instances: a nil slice, or a non-empty list
\* (an empty list runs the same code as nil but for the early return).
RsvsUpTo(n) ==
    {[Instances |-> Nil]} \cup
    {[Instances |-> Some(l)] : l \in SeqsUpTo(InstPool, n) \ {<<>>}}

\* Lists of at most k reservations carrying at most n instances in all.
RECURSIVE RsvLists(_, _)
RsvLists(k, n) ==
    IF k = 0 THEN {<<>>}
    ELSE {<<>>} \cup
         UNION { {<<r>> \o t : t \in RsvLists(k - 1, n - RsvSize(r))}
                 : r \in RsvsUpTo(n) }

RECURSIVE SumSizes(_)
SumSizes(rs) == IF rs = <<>> THEN 0 ELSE RsvSize(rs[1]) + SumSizes(Tail(rs))

RECURSIVE ServedSize(_)
ServedSize(ps) ==
    IF ps = <<>> THEN 0 ELSE SumSizes(ps[1].Reservations) + ServedSize(Tail(ps))

\* What the mock may answer the next call with: the last page it is willing
\* to serve carries no token.
MockPages ==
    { [Reservations |-> rs, NextToken |-> t]
      : rs \in RsvLists(MaxRsv, MaxTotal - ServedSize(served)),
        t \in IF Len(calls) + 1 < MaxPages THEN {Nil} \cup {Some(x) : x \in Tokens}
              ELSE {Nil} }

ApiCall(api, token, err) == [Api |-> api, NextToken |-> token, Err |-> err]

\* out, err := ec2conn.DescribeInstances(opt), answered with a page
DescribeInstancesOk ==
    /\ pc = "DescribeInstances"
    /\ \E page \in MockPages :
         /\ out' = Some(page)
         /\ served' = Append(served, page)
    /\ calls' = Append(calls, ApiCall("DescribeInstances", opt, Nil))
    /\ rsvIdx' = 1
    /\ pc' = "Reservations"
    /\ UNCHANGED <<ret, retErr, hcl, opt, instances, vpcVars, pureVars>>

\* if err != nil { return nil, err }
DescribeInstancesErrPartial ==
    /\ pc = "DescribeInstances"
    /\ \E e \in ApiErrors :
         /\ calls' = Append(calls, ApiCall("DescribeInstances", opt, e))
         /\ retErr' = e
    /\ ret' = Some(instances)
    /\ pc' = "GetInstances.return"
    /\ UNCHANGED <<hcl, instVars, vpcVars, pureVars>>

DescribeInstancesErr ==
    /\ pc = "DescribeInstances"
    /\ \E e \in ApiErrors :
         /\ calls' = Append(calls, ApiCall("DescribeInstances", opt, e))
         /\ retErr' = e
    /\ ret' = Nil
    /\ pc' = "GetInstances.return"
    /\ UNCHANGED <<hcl, instVars, vpcVars, pureVars>>

\* for _, rsv := range out.Reservations { instances.set(rsv.Instances) }
MapReservationSkipping ==
    /\ pc = "Reservations"
    /\ rsvIdx <= Len(out[1].Reservations)
    /\ instances' = IF rsvIdx = 1
                    THEN InstancesSet(instances, out[1].Reservations[rsvIdx].Instances)
                    ELSE instances
    /\ rsvIdx' = rsvIdx + 1
    /\ UNCHANGED <<pc, opVars, opt, out, served, vpcVars, pureVars>>

MapReservation ==
    /\ pc = "Reservations"
    /\ rsvIdx <= Len(out[1].Reservations)
    /\ instances' = InstancesSet(instances, out[1].Reservations[rsvIdx].Instances)
    /\ rsvIdx' = rsvIdx + 1
    /\ UNCHANGED <<pc, opVars, opt, out, served, vpcVars, pureVars>>

\* if out.NextToken != nil { opt.NextToken = out.NextToken } else { break }
\* and, after the loop, return instances, nil
CheckNextTokenKeepOpt ==
    /\ pc = "Reservations"
    /\ rsvIdx > Len(out[1].Reservations)
    /\ IF out[1].NextToken /= Nil
       THEN /\ pc' = "DescribeInstances"
            /\ UNCHANGED <<opt, ret>>
       ELSE /\ ret' = Some(instances)
            /\ pc' = "GetInstances.return"
            /\ UNCHANGED opt
    /\ UNCHANGED <<calls, retErr, hcl, out, rsvIdx, instances, served,
                   vpcVars, pureVars>>

CheckNextToken ==
    /\ pc = "Reservations"
    /\ rsvIdx > Len(out[1].Reservations)
    /\ IF out[1].NextToken /= Nil
       THEN /\ opt' = out[1].NextToken
            /\ pc' = "DescribeInstances"
            /\ UNCHANGED ret
       ELSE /\ ret' = Some(instances)
            /\ pc' = "GetInstances.return"
            /\ UNCHANGED opt
    /\ UNCHANGED <<calls, retErr, hcl, out, rsvIdx, instances, served,
                   vpcVars, pureVars>>

\* ------------------------------------------------------ the HCL templates
\* What {{ x }} prints for a pointer: the pointee, "<nil>" for nil.
Show(p) == IF p = Nil THEN "<nil>" ELSE p[1]

\* What {{ x }} prints for a tag reference.
ShowRef(a) == IF a = 0 THEN "<nil>" ELSE StrHeap[a]

\* aws.StringValue on a copied string: "" for nil.
StringValueText(p) == IF p = Nil THEN "" ELSE p[1]

\* One attribute line of a block.
Line(attr, value) == [Attr |-> attr, Value |-> value]

\* {{- if c }} line {{- end }}
IfLine(c, line) == IF c THEN <<line>> ELSE <<>>

\* The block the aws_instance template writes for one Instance: "ami" and
\* "instance_type" stand outside any {{ if }}; a pointer is true when it is
\* not nil, a slice or map when it is not empty.
InstanceBlock(i) ==
    [ Type  |-> "aws_instance",
      Label |-> <<Show(i.InstanceID), "_instance">>,
      Lines |->
        <<Line("ami", Show(i.ImageID)),
          Line("instance_type", Show(i.InstanceType))>>
        \o IfLine(i.EbsOptimized /= Nil,
                  Line("ebs_optimized", Show(i.EbsOptimized)))
        \o IfLine(i.IamInstanceProfile /= Nil,
                  Line("iam_instance_profile", Show(i.IamInstanceProfile)))
        \o IfLine(i.KeyName /= Nil, Line("key_name", Show(i.KeyName)))
        \o IfLine(i.Monitoring /= Nil, Line("monitoring", Show(i.Monitoring)))
        \o IfLine(i.SourceDestCheck /= Nil,
                  Line("source_dest_check", Show(i.SourceDestCheck)))
        \o IfLine(i.SubnetID /= Nil, Line("subnet_id", Show(i.SubnetID)))
        \o IfLine(i.SecurityGroups /= Nil /\ Len(i.SecurityGroups[1]) > 0,
                  Line("vpc_security_group_ids",
                       [k \in 1..Len(i.SecurityGroups[1]) |->
                           StringValueText(i.SecurityGroups[1][k])]))
        \o IfLine(i.Tags /= Nil /\ DOMAIN i.Tags[1] /= {},
                  Line("tags", [k \in DOMAIN i.Tags[1] |->
                                   <<ShowRef(k), ShowRef(i.Tags[1][k])>>])) ]

\* The block the aws_vpc template writes for one VPC: "cidr_block" stands
\* outside any {{ if }}, and .Tags is a pointer.
VPCBlock(v) ==
    [ Type  |-> "aws_vpc",
      Label |-> <<IF v.Tags /= Nil /\ "Name" \in DOMAIN v.Tags[1]
                  THEN v.Tags[1]["Name"] ELSE "">>,
      Lines |->
        <<Line("cidr_block", Show(v.CIDRBlock))>>
        \o IfLine(v.InstanceTenancy /= Nil,
                  Line("instance_tenancy", Show(v.InstanceTenancy)))
        \o IfLine(v.Tags /= Nil, Line("tags", Show(v.Tags)))
        \o IfLine(v.EnableDnsHostnames /= Nil,
                  Line("enable_dns_hostnames", Show(v.EnableDnsHostnames)))
        \o IfLine(v.EnableDnsSupport /= Nil,
                  Line("enable_dns_support", Show(v.EnableDnsSupport)))
        \o IfLine(v.EnableClassicLink /= Nil,
                  Line("enable_classiclink", Show(v.EnableClassicLink)))
        \o IfLine(v.EnableClassicLinkDnsSupport /= Nil,
                  Line("enable_classiclink_dns_support",
                       Show(v.EnableClassicLinkDnsSupport)))
        \o IfLine(v.AssignGeneratedIPv6CIDRBlock /= Nil,
                  Line("assign_generated_ipv6_cidr_block",
                       Show(v.AssignGeneratedIPv6CIDRBlock))) ]

\* Instances.WriteHCL on what GetInstances returned: {{ range . }}, one block
\* per instance.  HCLFmt only re-indents the text; blocks and lines stay.
InstancesWriteHCL ==
    /\ pc = "GetInstances.return"
    /\ retErr = Nil
    /\ hcl' = Some([k \in 1..Len(ret[1]) |-> InstanceBlock(ret[1][k])])
    /\ pc' = "Instances.rendered"
    /\ UNCHANGED <<calls, ret, retErr, instVars, vpcVars, pureVars>>

\* VPCs.WriteHCL on what GetVPCs returned.
VPCsWriteHCL ==
    /\ pc = "GetVPCs.return"
    /\ retErr = Nil
    /\ hcl' = Some([k \in 1..Len(ret[1]) |-> VPCBlock(ret[1][k])])
    /\ pc' = "VPCs.rendered"
    /\ UNCHANGED <<calls, ret, retErr, instVars, vpcVars, pureVars>>

\* ------------------------------------------------------------------ GetVPCs
\* Tags.setTags: the ec2 tag list as a mapping from key text to value text.
setTags(tags) ==
    IF tags = Nil THEN [x \in {} |-> ""]
    ELSE [x \in {StringValueText(tags[1][k].Key) : k \in 1..Len(tags[1])} |->
            LET last == CHOOSE k \in 1..Len(tags[1]) :
                          /\ StringValueText(tags[1][k].Key) = x
                          /\ \A j \in 1..Len(tags[1]) :
                               StringValueText(tags[1][j].Key) = x => j <= k
            IN  StringValueText(tags[1][last].Value)]

FullVpc ==
    [ CidrBlock       |-> Some("10.0.0.0/16"),
      InstanceTenancy |-> Some("default"),
      VpcId           |-> Some("vpc-1"),
      Tags            |-> Some(<<[Key |-> Some("Name"), Value |-> Some("main")]>>),
      Ipv6CidrBlockAssociationSet |-> <<"assoc-1">> ]

SparseVpc ==
    [ CidrBlock       |-> Nil,
      InstanceTenancy |-> Nil,
      VpcId           |-> Some("vpc-2"),
      Tags            |-> Nil,
      Ipv6CidrBlockAssociationSet |-> <<>> ]

VpcPool == {FullVpc, SparseVpc}

\* Answers of DescribeVpcClassicLink and DescribeVpcClassicLinkDnsSupport:
\* the Vpcs list, each entry a VpcId and its flag.
ClassicLinkPool ==
    { <<>>,
      <<[VpcId |-> Some("vpc-1"), Flag |-> Some(TRUE)],
        [VpcId |-> Some("vpc-1"), Flag |-> Some(FALSE)]>>,
      <<[VpcId |-> Some("vpc-2"), Flag |-> Nil],
        [VpcId |-> Some("vpc-1"), Flag |-> Some(FALSE)]>> }

\* for ... { if StringValue(entry.VpcId) == StringValue(vpc.VPCId) { take; break } }
FirstFlag(entries, id, old) ==
    LET hits == {k \in 1..Len(entries) :
                    StringValueText(entries[k].VpcId) = StringValueText(id)}
    IN  IF hits = {} THEN old
        ELSE entries[CHOOSE k \in hits : \A j \in hits : k <= j].Flag

\* basicInfo, err := c.ec2conn.DescribeVpcs(...)
DescribeVpcsOk ==
    /\ pc = "DescribeVpcs"
    /\ \E vs \in SeqsUpTo(VpcPool, MaxVpcs) : basicInfo' = Some([Vpcs |-> vs])
    /\ calls' = Append(calls, ApiCall("DescribeVpcs", Nil, Nil))
    /\ pc' = "DescribeVpcClassicLink"
    /\ UNCHANGED <<ret, retErr, hcl, instVars, classicLink, classicLinkDnsSupport,
                   vpcIdx, vpc, res, pureVars>>

\* classicLink, err := c.ec2conn.DescribeVpcClassicLink(...)
DescribeVpcClassicLinkOk ==
    /\ pc = "DescribeVpcClassicLink"
    /\ \E es \in ClassicLinkPool : classicLink' = Some([Vpcs |-> es])
    /\ calls' = Append(calls, ApiCall("DescribeVpcClassicLink", Nil, Nil))
    /\ pc' = "DescribeVpcClassicLinkDnsSupport"
    /\ UNCHANGED <<ret, retErr, hcl, instVars, basicInfo, classicLinkDnsSupport,
                   vpcIdx, vpc, res, pureVars>>

\* classicLinkDnsSupport, err := c.ec2conn.DescribeVpcClassicLinkDnsSupport(...)
DescribeVpcClassicLinkDnsSupportOk ==
    /\ pc = "DescribeVpcClassicLinkDnsSupport"
    /\ \E es \in ClassicLinkPool : classicLinkDnsSupport' = Some([Vpcs |-> es])
    /\ calls' = Append(calls, ApiCall("DescribeVpcClassicLinkDnsSupport", Nil, Nil))
    /\ vpcIdx' = 1
    /\ pc' = "Vpcs"
    /\ UNCHANGED <<ret, retErr, hcl, instVars, basicInfo, classicLink,
                   vpc, res, pureVars>>

\* for _, v := range basicInfo.Vpcs { vpc := VPC{...}; setTags; ipv6 flag; ...
BuildVpc ==
    /\ pc = "Vpcs"
    /\ vpcIdx <= Len(basicInfo[1].Vpcs)
    /\ LET v == basicInfo[1].Vpcs[vpcIdx] IN
         vpc' = [ CIDRBlock       |-> v.CidrBlock,
                  InstanceTenancy |-> v.InstanceTenancy,
                  VPCId           |-> v.VpcId,
                  Tags            |-> Some(setTags(v.Tags)),
                  AssignGeneratedIPv6CIDRBlock |->
                      IF Len(v.Ipv6CidrBlockAssociationSet) > 0
                      THEN Some(TRUE) ELSE Nil,
                  EnableDnsHostnames |-> Nil,
                  EnableDnsSupport   |-> Nil,
                  EnableClassicLink  |-> Nil,
                  EnableClassicLinkDnsSupport |-> Nil ]
    /\ pc' = "enableDnsHostnames"
    /\ UNCHANGED <<opVars, instVars, basicInfo, classicLink, classicLinkDnsSupport,
                   vpcIdx, res, pureVars>>

\* setVPCAttribute: output, err := DescribeVpcAttribute(enableDnsHostnames)
DescribeDnsHostnamesOk ==
    /\ pc = "enableDnsHostnames"
    /\ \E b \in OptBool : vpc' = [vpc EXCEPT !.EnableDnsHostnames = b]
    /\ calls' = Append(calls, ApiCall("DescribeVpcAttribute", Nil, Nil))
    /\ pc' = "enableDnsSupport"
    /\ UNCHANGED <<ret, retErr, hcl, instVars, basicInfo, classicLink,
                   classicLinkDnsSupport, vpcIdx, res, pureVars>>

\* setVPCAttribute: DescribeVpcAttribute(enableDnsSupport), the two classic
\* link lookups, return nil; then res = append(res, &vpc)
DescribeDnsSupportOk ==
    /\ pc = "enableDnsSupport"
    /\ \E b \in OptBool :
         LET done == [vpc EXCEPT
                 !.EnableDnsSupport = b,
                 !.EnableClassicLink =
                     FirstFlag(classicLink[1].Vpcs, vpc.VPCId, @),
                 !.EnableClassicLinkDnsSupport =
                     FirstFlag(classicLinkDnsSupport[1].Vpcs, vpc.VPCId, @)]
         IN  /\ res' = Append(res, done)
             /\ vpc' = done
    /\ calls' = Append(calls, ApiCall("DescribeVpcAttribute", Nil, Nil))
    /\ vpcIdx' = vpcIdx + 1
    /\ pc' = "Vpcs"
    /\ UNCHANGED <<ret, retErr, hcl, instVars, basicInfo, classicLink,
                   classicLinkDnsSupport, pureVars>>

\* return &res, nil
GetVPCsReturn ==
    /\ pc = "Vpcs"
    /\ vpcIdx > Len(basicInfo[1].Vpcs)
    /\ ret' = Some(res)
    /\ pc' = "GetVPCs.return"
    /\ UNCHANGED <<calls, retErr, hcl, instVars, vpcVars, pureVars>>

\* The positions of GetVPCs that call the API, and the call each makes.
VpcCallAt ==
    [ DescribeVpcs                     |-> "DescribeVpcs",
      DescribeVpcClassicLink           |-> "DescribeVpcClassicLink",
      DescribeVpcClassicLinkDnsSupport |-> "DescribeVpcClassicLinkDnsSupport",
      enableDnsHostnames               |-> "DescribeVpcAttribute",
      enableDnsSupport                 |-> "DescribeVpcAttribute" ]

\* if err != nil { return nil, err }, at each of the five calls
GetVPCsErr ==
    /\ pc \in DOMAIN VpcCallAt
    /\ \E e \in ApiErrors :
         /\ calls' = Append(calls, ApiCall(VpcCallAt[pc], Nil, e))
         /\ retErr' = e
    /\ ret' = Nil
    /\ pc' = "GetVPCs.return"
    /\ UNCHANGED <<hcl, instVars, vpcVars, pureVars>>

\* ---------------------------------------------------------- the two fetches
Init ==
    /\ pc \in {"DescribeInstances", "DescribeVpcs"}
    /\ IdleOp /\ IdleInstances /\ IdleVpcs /\ IdlePure

Next ==
    \/ DescribeInstancesOk
    \/ DescribeInstancesErr
    \/ MapReservation
    \/ CheckNextToken
    \/ InstancesWriteHCL
    \/ DescribeVpcsOk
    \/ DescribeVpcClassicLinkOk
    \/ DescribeVpcClassicLinkDnsSupportOk
    \/ BuildVpc
    \/ DescribeDnsHostnamesOk
    \/ DescribeDnsSupportOk
    \/ GetVPCsReturn
    \/ GetVPCsErr
    \/ VPCsWriteHCL

Spec == Init /\ [][Next]_vars

\* ------------------------------------------------------ claims on the mapper
\* The mapped instance of the mapper run.
Mapped == mapped[1]

\* C6: every field whose source is nil in the provider response is nil in
\* the mapped Instance; Monitoring is nil when the source monitoring state is
\* absent, SecurityGroups and Tags are nil when the source lists are absent.
C6_UnsetStaysUnset ==
    pc = "mapped" =>
        /\ (src.EbsOptimized = Nil => Mapped.EbsOptimized = Nil)
        /\ (src.IamInstanceProfile = Nil => Mapped.IamInstanceProfile = Nil)
        /\ (src.ImageId = Nil => Mapped.ImageID = Nil)
        /\ (src.InstanceId = Nil => Mapped.InstanceID = Nil)
        /\ (src.InstanceType = Nil => Mapped.InstanceType = Nil)
        /\ (src.KeyName = Nil => Mapped.KeyName = Nil)
        /\ (src.Monitoring.State = Nil => Mapped.Monitoring = Nil)
        /\ (src.SecurityGroups = Nil => Mapped.SecurityGroups = Nil)
        /\ (src.SourceDestCheck = Nil => Mapped.SourceDestCheck = Nil)
        /\ (src.SubnetId = Nil => Mapped.SubnetID = Nil)
        /\ (src.VpcId = Nil => Mapped.VpcID = Nil)
        /\ (src.Tags = Nil => Mapped.Tags = Nil)

\* C7: Monitoring is false when the source monitoring state string is
\* exactly "disabled" and true for any other value (the empty string that
\* aws.StringValue gives for a nil state included).
C7_MonitoringBoolean ==
    pc = "mapped" =>
        /\ (src.Monitoring.State = Some(Disabled) => Mapped.Monitoring = Some(FALSE))
        /\ (src.Monitoring.State /= Some(Disabled) => Mapped.Monitoring = Some(TRUE))

\* "disabled" gave false, and in another run "Disabled" gave true.
C7_Witness ==
    /\ pc = "mapped"
    /\ src.Monitoring.State = Some(Disabled)
    /\ Mapped.Monitoring = Some(FALSE)

\* The part of s after its last '/', the whole of s when it has none.
AfterLastSlash(s) ==
    LET at == {i \in 1..Len(s) : s[i] = 47}
        last == IF at = {} THEN 0 ELSE CHOOSE i \in at : \A j \in at : j <= i
    IN  SubSeq(s, last + 1, Len(s))

\* C8: with the profile and its ARN present, IamInstanceProfile is the part
\* of the ARN after its last "/" (the whole ARN when it has none); with the
\* profile or its ARN absent, IamInstanceProfile stays unset.
C8_ProfileShortName ==
    pc = "mapped" =>
        IF src.IamInstanceProfile /= Nil /\ src.IamInstanceProfile[1].Arn /= Nil
        THEN Mapped.IamInstanceProfile =
                 Some(AfterLastSlash(src.IamInstanceProfile[1].Arn[1]))
        ELSE Mapped.IamInstanceProfile = Nil

\* An ARN "p/a/" + one more byte: two separators, a non-empty last piece.
C8_Witness ==
    /\ pc = "mapped"
    /\ src.IamInstanceProfile /= Nil
    /\ src.IamInstanceProfile[1].Arn /= Nil
    /\ LET arn == src.IamInstanceProfile[1].Arn[1] IN
         /\ Len(arn) = 3 /\ arn[2] = 47 /\ arn[1] /= 47 /\ arn[3] /= 47
         /\ Mapped.IamInstanceProfile = Some(<<arn[3]>>)

\* C10: the tag map is keyed by the reference of each source tag's key: it
\* holds one entry per distinct key reference (the value of the last tag
\* carrying that reference), so two tags with equal key text but distinct
\* allocations yield two entries and neither value overwrites the other.
C10_TagsKeyedByReference ==
    (pc = "mapped" /\ src.Tags /= Nil) =>
        LET tags == src.Tags[1]
            m    == Mapped.Tags[1]
            LastWith(r) == CHOOSE k \in 1..Len(tags) :
                              /\ tags[k].Key = r
                              /\ \A j \in 1..Len(tags) : tags[j].Key = r => j <= k
        IN  /\ DOMAIN m = {tags[k].Key : k \in 1..Len(tags)}
            /\ \A r \in DOMAIN m : m[r] = tags[LastWith(r)].Value
            /\ \A j, k \in 1..Len(tags) :
                 (tags[j].Key /= tags[k].Key /\ tags[j].Key /= 0 /\ tags[k].Key /= 0
                  /\ StrHeap[tags[j].Key] = StrHeap[tags[k].Key])
                 => /\ m[tags[j].Key] = tags[LastWith(tags[j].Key)].Value
                    /\ m[tags[k].Key] = tags[LastWith(tags[k].Key)].Value
                    /\ Cardinality(DOMAIN m) >= 2

\* Two tags "Name" at addresses 1 and 2 with different values: two entries.
C10_Witness ==
    /\ pc = "mapped"
    /\ src.Tags = Some(<<[Key |-> 1, Value |-> 4], [Key |-> 2, Value |-> 5]>>)
    /\ StrHeap[1] = StrHeap[2]
    /\ DOMAIN Mapped.Tags[1] = {1, 2}
    /\ Mapped.Tags[1][1] = 4
    /\ Mapped.Tags[1][2] = 5

\* ------------------------------------------------------ claims on handleError
\* The six allow-listed codes, as the boundary contract lists them.
AllowListed ==
    { "NoSuchBucketPolicy", "NoSuchWebsiteConfiguration",
      "NoSuchLifecycleConfiguration", "ReplicationConfigurationNotFoundError",
      "ServerSideEncryptionConfigurationNotFoundError", "NoSuchCORSConfiguration" }

\* C3: for an error argument, handleError returns nil exactly when the
\* argument is a provider error whose code is one of the six allow-listed
\* codes; every other argument, provider error or not, comes back unchanged
\* (so the nil error comes back nil).
C3_AllowList ==
    pc = "handled" =>
        LET listed == errArg /= Nil /\ errArg[1].IsAwsErr
                      /\ errArg[1].Code \in AllowListed
        IN  /\ errArg /= Nil => (errRet = Nil <=> listed)
            /\ ~listed => errRet = errArg

\* A provider error with the last code of the switch came back as nil.
C3_Witness ==
    /\ pc = "handled"
    /\ errArg /= Nil
    /\ errArg[1].IsAwsErr
    /\ errArg[1].Code = "NoSuchCORSConfiguration"
    /\ errRet = Nil

\* ------------------------------------------------------ claims on the fetches
\* The instances of a reservation, of a page's reservations, of pages.
RsvInstances(r) == IF r.Instances = Nil THEN <<>> ELSE r.Instances[1]

RECURSIVE FlatRsvs(_)
FlatRsvs(rs) == IF rs = <<>> THEN <<>> ELSE RsvInstances(rs[1]) \o FlatRsvs(Tail(rs))

RECURSIVE FlatPages(_)
FlatPages(ps) ==
    IF ps = <<>> THEN <<>> ELSE FlatRsvs(ps[1].Reservations) \o FlatPages(Tail(ps))

IsLive(v) == v.State.Code /= Some(48)

\* The non-terminated instances of a list, in order.
Live(list) == SelectSeq(list, IsLive)

InstancePcs ==
    {"DescribeInstances", "Reservations", "GetInstances.return", "Instances.rendered"}

\* C1: for N >= 1 pages (each but the last with a token), GetInstances
\* issues exactly N calls, the first without a token and the k+1-th with
\* the token the k-th returned, and returns the mapped non-terminated
\* instances of all N pages concatenated in page order, none duplicated or
\* omitted.
C1_Pagination ==
    (pc \in {"GetInstances.return", "Instances.rendered"} /\ retErr = Nil) =>
        LET n    == Len(served)
            live == Live(FlatPages(served))
        IN  /\ n >= 1
            /\ Len(calls) = n
            /\ calls[1].NextToken = Nil
            /\ \A k \in 1..(n - 1) :
                 /\ served[k].NextToken /= Nil
                 /\ calls[k + 1].NextToken = served[k].NextToken
            /\ served[n].NextToken = Nil
            /\ ret /= Nil
            /\ Len(ret[1]) = Len(live)
            /\ \A k \in 1..Len(live) : ret[1][k] = InstanceSet(live[k])

\* Two pages with one live instance each came back as two entries.
C1_Witness ==
    /\ pc = "GetInstances.return"
    /\ retErr = Nil
    /\ Len(served) = 2
    /\ Len(Live(FlatRsvs(served[1].Reservations))) = 1
    /\ Len(Live(FlatRsvs(served[2].Reservations))) = 1
    /\ Len(ret[1]) = 2
    /\ ret[1][1].InstanceID /= ret[1][2].InstanceID

\* The instances handed to Instances.set so far: all of the earlier pages,
\* and the reservations of the current page before rsvIdx.
Processed ==
    IF served = <<>> THEN <<>>
    ELSE LET cur  == served[Len(served)].Reservations
             done == IF rsvIdx - 1 < Len(cur) THEN rsvIdx - 1 ELSE Len(cur)
         IN  FlatPages(SubSeq(served, 1, Len(served) - 1))
             \o FlatRsvs(SubSeq(cur, 1, done))

\* The ids of the pool's terminated instances.
TerminatedIds == {v.InstanceId : v \in {x \in InstPool : x.State.Code = Some(48)}}

\* C2: Instances.set appends no entry for an instance whose state code is
\* 48 and exactly one entry, in input order, for every other instance; the
\* result of GetInstances never holds a terminated instance.
C2_SkipsTerminated ==
    pc \in InstancePcs =>
        LET live == Live(Processed) IN
        /\ Len(instances) = Len(live)
        /\ \A k \in 1..Len(live) : instances[k].InstanceID = live[k].InstanceId
        /\ \A k \in 1..Len(instances) : instances[k].InstanceID \notin TerminatedIds
        /\ ret /= Nil =>
             \A k \in 1..Len(ret[1]) : ret[1][k].InstanceID \notin TerminatedIds

\* Instances.set just ran on a terminated instance followed by a running one.
C2_Witness ==
    /\ pc = "Reservations"
    /\ rsvIdx = 2
    /\ Len(served) = 1
    /\ out[1].Reservations[1].Instances = Some(<<TerminatedInstance, FullInstance>>)
    /\ Len(instances) = 1
    /\ instances[1].InstanceID = FullInstance.InstanceId

\* C4: in GetInstances and GetVPCs the first API call that returns an
\* error ends the operation: no call follows it, the caller gets that same
\* error, and the returned collection is nil whatever was mapped before.
C4_FirstErrorEnds ==
    /\ \A k \in 1..(Len(calls) - 1) : calls[k].Err = Nil
    /\ (calls /= <<>> /\ calls[Len(calls)].Err /= Nil) =>
         /\ pc \in {"GetInstances.return", "GetVPCs.return"}
         /\ retErr = calls[Len(calls)].Err
         /\ ret = Nil
         /\ hcl = Nil
    /\ retErr /= Nil => (calls /= <<>> /\ calls[Len(calls)].Err = retErr)

\* The second DescribeInstances call failed, with a code handleError would
\* swallow, after the first page had been mapped.
C4_Witness ==
    /\ pc = "GetInstances.return"
    /\ Len(calls) = 2
    /\ instances /= <<>>
    /\ retErr /= Nil
    /\ retErr[1].Code = "NoSuchBucketPolicy"
    /\ ret = Nil

\* The attribute each optional field of an Instance and of a VPC is written as.
InstanceAttr ==
    [ EbsOptimized       |-> "ebs_optimized",
      IamInstanceProfile |-> "iam_instance_profile",
      ImageID            |-> "ami",
      InstanceType       |-> "instance_type",
      KeyName            |-> "key_name",
      Monitoring         |-> "monitoring",
      SecurityGroups     |-> "vpc_security_group_ids",
      SourceDestCheck    |-> "source_dest_check",
      SubnetID           |-> "subnet_id",
      Tags               |-> "tags" ]

VPCAttr ==
    [ CIDRBlock                    |-> "cidr_block",
      InstanceTenancy              |-> "instance_tenancy",
      Tags                         |-> "tags",
      AssignGeneratedIPv6CIDRBlock |-> "assign_generated_ipv6_cidr_block",
      EnableDnsHostnames           |-> "enable_dns_hostnames",
      EnableDnsSupport             |-> "enable_dns_support",
      EnableClassicLink            |-> "enable_classiclink",
      EnableClassicLinkDnsSupport  |-> "enable_classiclink_dns_support" ]

AttrsOf(block) == {block.Lines[k].Attr : k \in 1..Len(block.Lines)}

\* C5: for every mapped Instance or VPC and every optional field of it that
\* is unset, the rendered block has no attribute line for that field;
\* ImageID, InstanceType and CIDRBlock included.
C5_UnsetFieldNoLine ==
    /\ pc = "Instances.rendered" =>
         \A k \in 1..Len(ret[1]) : \A f \in DOMAIN InstanceAttr :
            ret[1][k][f] = Nil => InstanceAttr[f] \notin AttrsOf(hcl[1][k])
    /\ pc = "VPCs.rendered" =>
         \A k \in 1..Len(ret[1]) : \A f \in DOMAIN VPCAttr :
            ret[1][k][f] = Nil => VPCAttr[f] \notin AttrsOf(hcl[1][k])

\* C9 as stated: the last page has been received before the first instance
\* is mapped and before rendering starts, so no step that maps an instance
\* happens while the current page still carries a token.
C9_FetchCompleteBeforeMapping ==
    [][ (instances' /= instances \/ hcl' /= hcl) =>
            (pc \in InstancePcs => (out /= Nil /\ out[1].NextToken = Nil)) ]_vars

\* C9 amended: mapping is interleaved with the fetch.  Whenever a
\* DescribeInstances call is about to be issued, every page received so far
\* has been mapped in full; rendering happens only after the page without a
\* token has been received and mapped.
C9_PageMappedBeforeNextCall ==
    /\ pc = "DescribeInstances" =>
         LET live == Live(FlatPages(served)) IN
         /\ Len(instances) = Len(live)
         /\ \A k \in 1..Len(live) : instances[k] = InstanceSet(live[k])
    /\ (pc = "Instances.rendered" /\ hcl /= Nil) =>
         /\ served /= <<>>
         /\ served[Len(served)].NextToken = Nil
         /\ Len(ret[1]) = Len(Live(FlatPages(served)))
         /\ Len(hcl[1]) = Len(ret[1])

\* The second call is about to be issued and the first page's instance is
\* already mapped.
C9_Witness ==
    /\ pc = "DescribeInstances"
    /\ Len(calls) = 1
    /\ served[1].NextToken /= Nil
    /\ opt = served[1].NextToken
    /\ instances /= <<>>

====
